---- MODULE Spec2Model ----
(***************************************************************************)
(* Model of pill-sync-bot (src/app.py): the medication records kept in the *)
(* DynamoDB table, the chat command handlers, the acknowledge callback and *)
(* the reminder sweep with its semaphore-limited sends.                    *)
(*                                                                         *)
(* Representation.  Python strings that the code inspects (medication      *)
(* names, fire-time tokens, callback data) are sequences of one-character  *)
(* strings, so that lower(), split("|") and strptime("%H:%M") are computed *)
(* character by character.  An instant is a number of minutes since        *)
(* midnight UTC of day 0; a calendar date ("%Y-%m-%d") is the day number.  *)
(* An ISO timestamp with offset (now_local.isoformat()) is the record      *)
(* [wall, off]: its wall-clock minutes and its UTC offset in minutes.      *)
(* An absent dict key (last_reminder_time) is the empty sequence, a        *)
(* present one a one-element sequence.  The field id of a medication entry *)
(* is not stored by the program: it names the entry (the dict object that  *)
(* add_medicine appended) so that properties can follow one entry.         *)
(***************************************************************************)
EXTENDS Integers, Sequences, FiniteSets, TLC

\* ------------------------------------------------------------------ bounds
\* the last day of the clock (the first is day 0)
MaxDay == 1
\* updates processed, in the specifications about the commands
MaxCmds == 2
\* sweeps started, in the specifications about the sweep
MaxSweeps == 2
\* updates processed, in the specifications about the sweep with a handler
\* beside it
MaxPress == 1
\* sweeps started, in the specifications about the handlers with a sweep
\* beside them
MaxPass == 1
\* the reminders due at once, in the specification about the semaphore
SendMeds == 11

\* -------------------------------------------------------- program constants
SEM_LIMIT == 10
MinutesPerDay == 1440

\* ------------------------------------------------------------------ inputs
Users == {"u1", "u2"}
Procs == {1, 2}

\* Telegram accounts that are not on the list of allowed usernames: one with
\* another username, one without a username
Strangers == {"u3", "u4"}

\* from_user.username of each account
Username ==
  [u \in Users \cup Strangers |->
     CASE u = "u1" -> <<"a", "n", "n">>
       [] u = "u2" -> <<"B", "o", "b">>
       [] u = "u3" -> <<"e", "v", "e">>
       [] OTHER -> <<>>]

\* the environment variable ALLOWED_USERNAMES: "@Ann, bob"
AllowedUsernamesStr == <<"@", "A", "n", "n", ",", " ", "b", "o", "b">>

NameAs == <<"A", "s">>
NameLower == <<"a", "s">>
NameUpper == <<"A", "S">>
NameB == <<"B">>
NamePipe == <<"a", "|", "s">>

T0900 == <<"0", "9", ":", "0", "0">>
T1800 == <<"1", "8", ":", "0", "0">>
T900 == <<"9", ":", "0", "0">>
TBad == <<"9", "h">>
T2400 == <<"2", "4", ":", "0", "0">>
T2100 == <<"2", "1", ":", "0", "0">>

Dose == <<"5", "m", "g">>

\* UTC minutes of the day at which the clock is observed: 08:59, 09:00 and
\* 21:00 UTC (17:59, 18:00 and 06:00 of the next day in Asia/Tokyo).
ClockMinutes == {539, 540, 1260}
Instants == {d * MinutesPerDay + m : d \in 0..MaxDay, m \in ClockMinutes}

\* ------------------------------------------------------------ string helpers
RECURSIVE MapSeq(_, _)
LowerChar(c) ==
  CASE c = "A" -> "a" [] c = "B" -> "b" [] c = "C" -> "c" [] c = "D" -> "d"
    [] c = "E" -> "e" [] c = "F" -> "f" [] c = "G" -> "g" [] c = "H" -> "h"
    [] c = "I" -> "i" [] c = "J" -> "j" [] c = "K" -> "k" [] c = "L" -> "l"
    [] c = "M" -> "m" [] c = "N" -> "n" [] c = "O" -> "o" [] c = "P" -> "p"
    [] c = "Q" -> "q" [] c = "R" -> "r" [] c = "S" -> "s" [] c = "T" -> "t"
    [] c = "U" -> "u" [] c = "V" -> "v" [] c = "W" -> "w" [] c = "X" -> "x"
    [] c = "Y" -> "y" [] c = "Z" -> "z"
    [] OTHER -> c

MapSeq(s, i) ==
  IF i > Len(s) THEN <<>> ELSE <<LowerChar(s[i])>> \o MapSeq(s, i + 1)

\* str.lower()
Lower(s) == MapSeq(s, 1)

\* str.split(sep): the fields between the occurrences of sep
RECURSIVE SplitFrom(_, _, _, _)
SplitFrom(s, sep, i, cur) ==
  IF i > Len(s) THEN <<cur>>
  ELSE IF s[i] = sep THEN <<cur>> \o SplitFrom(s, sep, i + 1, <<>>)
  ELSE SplitFrom(s, sep, i + 1, Append(cur, s[i]))

Split(s, sep) == SplitFrom(s, sep, 1, <<>>)

\* str.strip(): without the blanks at both ends
RECURSIVE Strip(_)
Strip(s) ==
  IF Len(s) > 0 /\ s[1] = " " THEN Strip(Tail(s))
  ELSE IF Len(s) > 0 /\ s[Len(s)] = " " THEN Strip(SubSeq(s, 1, Len(s) - 1))
  ELSE s

\* str.lstrip('@')
RECURSIVE LStripAt(_)
LStripAt(s) == IF Len(s) > 0 /\ s[1] = "@" THEN LStripAt(Tail(s)) ELSE s

\* {username.strip().lstrip('@') for username in str.split(",") if username.strip()}
ALLOWED_USERNAMES ==
  LET f == Split(AllowedUsernamesStr, ",") IN
  {LStripAt(Strip(f[i])) : i \in {j \in 1..Len(f) : Len(Strip(f[j])) > 0}}

\* restricted: the wrapped handler is called for this account
Allowed(u) ==
  /\ Len(Username[u]) > 0
  /\ Lower(Username[u]) \in {Lower(a) : a \in ALLOWED_USERNAMES}

\* x in list
InSeq(x, s) == \E i \in 1..Len(s) : s[i] = x

Digits == {"0", "1", "2", "3", "4", "5", "6", "7", "8", "9"}

DigitVal(c) ==
  CASE c = "0" -> 0 [] c = "1" -> 1 [] c = "2" -> 2 [] c = "3" -> 3
    [] c = "4" -> 4 [] c = "5" -> 5 [] c = "6" -> 6 [] c = "7" -> 7
    [] c = "8" -> 8 [] c = "9" -> 9 [] OTHER -> 0

IsDigits(s) == \A i \in 1..Len(s) : s[i] \in Digits

\* %H of strptime: 2[0-3] | [0-1]\d | \d
HourOk(s) ==
  /\ Len(s) \in {1, 2}
  /\ IsDigits(s)
  /\ Len(s) = 2 => (s[1] \in {"0", "1"} \/ (s[1] = "2" /\ s[2] \in {"0", "1", "2", "3"}))

\* %M of strptime: [0-5]\d | \d
MinuteOk(s) ==
  /\ Len(s) \in {1, 2}
  /\ IsDigits(s)
  /\ Len(s) = 2 => s[1] \in {"0", "1", "2", "3", "4", "5"}

NumVal(s) == IF Len(s) = 1 THEN DigitVal(s[1]) ELSE 10 * DigitVal(s[1]) + DigitVal(s[2])

\* datetime.strptime(med_time, "%H:%M") succeeds
TimeParses(s) ==
  LET f == Split(s, ":") IN Len(f) = 2 /\ HourOk(f[1]) /\ MinuteOk(f[2])

\* the parsed time of day, in minutes after midnight
ParseHM(s) ==
  LET f == Split(s, ":") IN 60 * NumVal(f[1]) + NumVal(f[2])

\* -------------------------------------------------------------- time zones
KnownZones == {"UTC", "Asia/Tokyo"}

\* a fallback to another zone than UTC
ResolveZone_FallbackTokyo(tz_str) ==
  IF tz_str \in KnownZones THEN tz_str ELSE "Asia/Tokyo"

\* ZoneInfo(tz_str), with the except branch: an unknown key gives UTC
ResolveZone(tz_str) == IF tz_str \in KnownZones THEN tz_str ELSE "UTC"

\* utcoffset of a resolved zone, in minutes (neither zone has DST)
UtcOffset(zone) == IF zone = "Asia/Tokyo" THEN 540 ELSE 0

\* now_utc.astimezone(tz): the wall-clock minutes in the zone.  utcnow() is
\* naive and astimezone() reads it in the system zone, which is UTC where
\* the handler runs.
ToLocal(now_utc, zone) == now_utc + UtcOffset(zone)

\* strftime("%Y-%m-%d") / .date() of a wall-clock value
DateOf(wall) == wall \div MinutesPerDay

\* now_local.isoformat()
IsoFormat(wall, zone) == [wall |-> wall, off |-> UtcOffset(zone)]

\* datetime.fromisoformat(s).date(): the date written in the timestamp
StampDate(stamp) == DateOf(stamp.wall)

\* ----------------------------------------------------------------- records
EmptyAck == [x \in {} |-> 0]

\* get_user_data's default item
DefaultUser(chat_id) ==
  [chat_id |-> chat_id, timezone |-> "UTC", medications |-> <<>>,
   language |-> <<"r", "u">>]

NewMedication(id, name, dosage, times) ==
  [id |-> id, name |-> name, dosage |-> dosage, times |-> times,
   acknowledged |-> EmptyAck, last_reminder_time |-> <<>>]

\* acknowledged[med_time] = today_str
AckSet(ack, t, d) ==
  [x \in (DOMAIN ack) \cup {t} |-> IF x = t THEN d ELSE ack[x]]

\* ------------------------------------------------------ sweep: the evaluator
\* a sweep that does not look at the acknowledgments
AckedToday_Never(med, t, today) == FALSE

\* acknowledged.get(med_time) == today_str
AckedToday(med, t, today) ==
  t \in DOMAIN med.acknowledged /\ med.acknowledged[t] = today

\* a check that takes a stamp of any day for one of today
RemindedToday_AnyDay(med, wall) == Len(med.last_reminder_time) > 0

\* last_reminder_time and last_reminder_time.date() == now_local.date()
RemindedToday(med, wall) ==
  /\ Len(med.last_reminder_time) > 0
  /\ StampDate(med.last_reminder_time[1]) = DateOf(wall)

\* a comparison that is off by one: not due at the scheduled minute itself
NotYetTime_OffByOne(t, wall) == wall <= DateOf(wall) * MinutesPerDay + ParseHM(t)

\* now_local < scheduled_dt, both in the same zone
NotYetTime(t, wall) == wall < DateOf(wall) * MinutesPerDay + ParseHM(t)

\* callback_data = f"ack|{med_name}|{med_time}"
CallbackData(name, t) == <<"a", "c", "k", "|">> \o name \o <<"|">> \o t

ReminderTask(chat_id, med, t) ==
  [chat_id |-> chat_id, id |-> med.id, name |-> med.name, time |-> t,
   data |-> CallbackData(med.name, t)]

\* a sweep that forgets the stamp
StampMed_Forgotten(med, wall, zone) == med

\* med["last_reminder_time"] = now_local.isoformat()
StampMed(med, wall, zone) ==
  [med EXCEPT !.last_reminder_time = <<IsoFormat(wall, zone)>>]

\* a loop over the times that a time that does not parse ends
RECURSIVE ProcTimes_StopsAtBad(_, _, _, _, _)
ProcTimes_StopsAtBad(st, i, chat_id, wall, zone) ==
  IF i > Len(st.med.times) THEN st
  ELSE LET t == st.med.times[i]
           skip == \/ AckedToday(st.med, t, DateOf(wall))
                   \/ RemindedToday(st.med, wall)
                   \/ NotYetTime(t, wall)
           nxt == IF skip THEN st
                  ELSE [med |-> StampMed(st.med, wall, zone),
                        tasks |-> Append(st.tasks, ReminderTask(chat_id, st.med, t)),
                        modified |-> TRUE]
       IN IF ~AckedToday(st.med, t, DateOf(wall)) /\ ~RemindedToday(st.med, wall)
             /\ ~TimeParses(t)
          THEN st
          ELSE ProcTimes_StopsAtBad(nxt, i + 1, chat_id, wall, zone)

\* for med_time in med.get("times", []): ... ; st = [med, tasks, modified]
RECURSIVE ProcTimes(_, _, _, _, _)
ProcTimes(st, i, chat_id, wall, zone) ==
  IF i > Len(st.med.times) THEN st
  ELSE LET t == st.med.times[i]
           skip == \/ AckedToday(st.med, t, DateOf(wall))
                   \/ RemindedToday(st.med, wall)
                   \/ ~TimeParses(t)
                   \/ NotYetTime(t, wall)
           nxt == IF skip THEN st
                  ELSE [med |-> StampMed(st.med, wall, zone),
                        tasks |-> Append(st.tasks, ReminderTask(chat_id, st.med, t)),
                        modified |-> TRUE]
       IN ProcTimes(nxt, i + 1, chat_id, wall, zone)

\* for med in medications: ... ; st = [meds, tasks, modified]
RECURSIVE ProcMeds(_, _, _, _, _)
ProcMeds(st, j, chat_id, wall, zone) ==
  IF j > Len(st.meds) THEN st
  ELSE LET r == ProcTimes([med |-> st.meds[j], tasks |-> st.tasks,
                           modified |-> st.modified], 1, chat_id, wall, zone)
       IN ProcMeds([meds |-> [st.meds EXCEPT ![j] = r.med], tasks |-> r.tasks,
                    modified |-> r.modified], j + 1, chat_id, wall, zone)

\* a sweep that saves every user it goes through
EvalUser_AlwaysSaves(user, now_utc) ==
  LET zone == ResolveZone(user.timezone)
      wall == ToLocal(now_utc, zone)
      r == ProcMeds([meds |-> user.medications, tasks |-> <<>>, modified |-> FALSE],
                    1, user.chat_id, wall, zone)
  IN [user |-> [user EXCEPT !.medications = r.meds], tasks |-> r.tasks,
      modified |-> TRUE]

\* One pass of the sweep's loop body over a scanned user record:
\* [user, tasks, modified].
EvalUser(user, now_utc) ==
  LET zone == ResolveZone(user.timezone)
      wall == ToLocal(now_utc, zone)
      r == ProcMeds([meds |-> user.medications, tasks |-> <<>>, modified |-> FALSE],
                    1, user.chat_id, wall, zone)
  IN [user |-> [user EXCEPT !.medications = r.meds], tasks |-> r.tasks,
      modified |-> r.modified]

\* ---------------------------------------------------------------- handlers
\* Each handler, from its arguments and the record it read, gives
\* [write, rec, reply]: whether save_user_data is called, with which record,
\* and the reply's message key.
NoWrite(user_data, reply) == [write |-> FALSE, rec |-> user_data, reply |-> reply]
DoWrite(rec, reply) == [write |-> TRUE, rec |-> rec, reply |-> reply]

\* add_medicine: args = <<name, dosage, time, ...>>
AddMedicine(user_data, args, id) ==
  IF Len(args) < 3 THEN NoWrite(user_data, "addmedicine_usage")
  ELSE DoWrite([user_data EXCEPT !.medications =
                  Append(@, NewMedication(id, args[1], args[2], SubSeq(args, 3, Len(args))))],
               "medicine_added")

\* a filter that compares the names as they are written
KeepOnDelete_CaseSensitive(med, medicine_name) == med.name # medicine_name

\* med.get("name", "").lower() != medicine_name.lower()
KeepOnDelete(med, medicine_name) == Lower(med.name) # Lower(medicine_name)

RECURSIVE FilterMeds(_, _, _)
FilterMeds(meds, medicine_name, i) ==
  IF i > Len(meds) THEN <<>>
  ELSE (IF KeepOnDelete(meds[i], medicine_name) THEN <<meds[i]>> ELSE <<>>)
       \o FilterMeds(meds, medicine_name, i + 1)

\* delete_medicine: args = <<name, ...>>
DeleteMedicine(user_data, args) ==
  IF Len(args) = 0 THEN NoWrite(user_data, "deletemedicine_usage")
  ELSE LET new_medications == FilterMeds(user_data.medications, args[1], 1)
       IN IF Len(new_medications) = Len(user_data.medications)
          THEN NoWrite(user_data, "medicine_not_found")
          ELSE DoWrite([user_data EXCEPT !.medications = new_medications],
                       "medicine_deleted")

\* set_timezone: args = <<tz, ...>>, tz a zone name
SetTimezone(user_data, args) ==
  IF Len(args) = 0 THEN NoWrite(user_data, "settimezone_usage")
  ELSE DoWrite([user_data EXCEPT !.timezone = args[1]], "timezone_set")

\* set_language: args = <<code, ...>>; new_lang = args[0].lower()
SetLanguage(user_data, args) ==
  IF Len(args) = 0 THEN NoWrite(user_data, "setlanguage_usage")
  ELSE LET new_lang == Lower(args[1]) IN
       IF new_lang \notin {<<"r", "u">>, <<"e", "n">>}
       THEN NoWrite(user_data, "setlanguage_usage")
       ELSE DoWrite([user_data EXCEPT !.language = new_lang], "language_set")

\* start: the greeting
Start(user_data) == NoWrite(user_data, "start")

\* list_medicines: one line per entry with its name, dosage, times and
\* acknowledgments
ListMedicines(user_data) ==
  IF Len(user_data.medications) = 0
  THEN NoWrite(user_data, "listmedicines_empty")
  ELSE NoWrite(user_data,
               [j \in 1..Len(user_data.medications) |->
                  LET med == user_data.medications[j]
                  IN <<med.name, med.dosage, med.times, med.acknowledged>>])

\* echo: the reply to a text that is not a command
Echo(user_data) == NoWrite(user_data, "echo")

\* CallbackQueryHandler(callback_acknowledge, pattern=r"^ack\|"): re.match
MatchesAckPattern(data) ==
  Len(data) >= 4 /\ SubSeq(data, 1, 4) = <<"a", "c", "k", "|">>

\* a match that compares the names as they are written
AckMatches_CaseSensitive(med, med_name, med_time) ==
  med.name = med_name /\ InSeq(med_time, med.times)

\* the entry the acknowledge loop stops at: the first one whose name matches
\* ignoring case and whose times hold med_time (0: none)
AckMatches(med, med_name, med_time) ==
  Lower(med.name) = Lower(med_name) /\ InSeq(med_time, med.times)

AckIndex(meds, med_name, med_time) ==
  IF \E j \in 1..Len(meds) : AckMatches(meds[j], med_name, med_time)
  THEN CHOOSE j \in 1..Len(meds) :
         /\ AckMatches(meds[j], med_name, med_time)
         /\ \A k \in 1..(j - 1) : ~AckMatches(meds[k], med_name, med_time)
  ELSE 0

\* a handler that records the date of the last reminder, not of the press
AckToday_StampDate(user_data, now_utc) ==
  LET stamped == {j \in 1..Len(user_data.medications) :
                    Len(user_data.medications[j].last_reminder_time) > 0}
  IN IF stamped = {}
     THEN DateOf(ToLocal(now_utc, ResolveZone(user_data.timezone)))
     ELSE StampDate(user_data.medications[CHOOSE j \in stamped : TRUE]
                      .last_reminder_time[1])

\* a handler that records the local minute of the press, not its date
AckToday_Instant(user_data, now_utc) ==
  ToLocal(now_utc, ResolveZone(user_data.timezone))

\* today_str = datetime.utcnow().astimezone(tz).strftime("%Y-%m-%d")
AckToday(user_data, now_utc) ==
  DateOf(ToLocal(now_utc, ResolveZone(user_data.timezone)))

\* med["acknowledged"][med_time] = today_str
AckMed(med, med_time, today) ==
  [med EXCEPT !.acknowledged = AckSet(@, med_time, today)]

\* not (len(data) != 3 or data[0] != "ack")
AckShapeOk(data) ==
  LET f == Split(data, "|") IN Len(f) = 3 /\ f[1] = <<"a", "c", "k">>

\* callback_acknowledge: data = query.data, now_utc = utcnow() of line 356
Acknowledge(user_data, data, now_utc) ==
  LET f == Split(data, "|") IN
  IF ~AckShapeOk(data) THEN NoWrite(user_data, "ack_invalid")
  ELSE LET j == AckIndex(user_data.medications, f[2], f[3]) IN
       IF j = 0 THEN NoWrite(user_data, "medicine_for_ack_not_found")
       ELSE DoWrite([user_data EXCEPT !.medications[j] =
                       AckMed(@, f[3], AckToday(user_data, now_utc))],
                    "acknowledged_success")

\* ------------------------------------------------------------------- state
VARIABLES
  now,      \* the clock: the current UTC instant
  store,    \* the table: chat_id -> item, for the items that exist
  sw,       \* per process, the sweep invocation it is running
  sem,      \* per process, the event loop its module-level semaphore is bound to
  h,        \* the handler invocations between their read and their reply
  resp,     \* the last reply sent to a chat, with its invocation's number
  log,      \* history: every reminder send handed to the dispatcher
  failed,   \* history: the sends (sweep, place) whose send_message raised
  hist,     \* history: what happened to each user's item
  overlap,  \* history: two sweeps have been running at once
  nextId,   \* history: the next medication entry's id
  ncmd,     \* history: updates processed so far
  nsweep    \* history: sweep invocations so far

vars == <<now, store, sw, sem, h, resp, log, failed, hist, overlap, nextId, ncmd, nsweep>>

IdleSweep ==
  [pc |-> "idle", now_utc |-> 0, users |-> <<>>, i |-> 1, tasks |-> <<>>,
   st |-> <<>>, serial |-> 0, saved |-> <<>>]

\* the handler invocations in progress, by their number
NoHandlers == [k \in {} |-> 0]

HandlerAdd(f, k, x) == [j \in (DOMAIN f) \cup {k} |-> IF j = k THEN x ELSE f[j]]

HandlerEnd(f, k) == [j \in (DOMAIN f) \ {k} |-> f[j]]

NoReply == [n |-> 0, op |-> "none"]

\* per user: tz: how often the item's timezone changed; gone: the entries
\* that left the item's list; hpre: the handler invocations in progress that
\* read the item before a sweep's write to it; hlost: how often one of those
\* has written the item (the sweep's write is lost); spre: the sweeps in
\* progress that scanned the item before a handler's write to it; slost: how
\* often one of those has written the item (the handler's write is lost);
\* stale: the invocations and sweeps in progress that hold a copy read
\* before the last write to the item; last: the last write to the item;
\* again: that write repeated the one before it, from a copy read after
\* it; deleted: the names (lower case) that a delete command removed
\* and no add command has added since, each with the invocations and sweeps
\* that held a copy of the item when the delete was saved, and whether none
\* of them has written the item since (ok)
NoHist ==
  [tz |-> 0, gone |-> {}, hpre |-> {}, hlost |-> 0, spre |-> {}, slost |-> 0,
   stale |-> {}, last |-> <<>>, again |-> FALSE, deleted |-> {}]

\* ------------------------------------------------------------ the table
\* table.get_item / get_user_data
GetUserData(chat_id) ==
  IF chat_id \in DOMAIN store THEN store[chat_id] ELSE DefaultUser(chat_id)

\* a conditional put, which leaves an existing item as it is
PutItem_IfAbsent(tbl, item) ==
  [k \in (DOMAIN tbl) \cup {item.chat_id} |->
     IF k \in DOMAIN tbl THEN tbl[k] ELSE item]

\* table.put_item: an unconditional overwrite of the whole item
PutItem(tbl, item) ==
  [k \in (DOMAIN tbl) \cup {item.chat_id} |->
     IF k = item.chat_id THEN item ELSE tbl[k]]

\* The orders in which table.scan() may return the items: the code asks for
\* none and the table promises none, so every order of the keys is possible.
ScanOrders ==
  {o \in [1..Cardinality(Users) -> Users] : \A u \in Users : \E i \in DOMAIN o : o[i] = u}

\* table.scan(): the existing items, in the order `order` of the keys
RECURSIVE ScanFrom(_, _)
ScanFrom(order, i) ==
  IF i > Len(order) THEN <<>>
  ELSE (IF order[i] \in DOMAIN store THEN <<store[order[i]]>> ELSE <<>>)
       \o ScanFrom(order, i + 1)

Scan(order) == ScanFrom(order, 1)

MedIds(item) == {item.medications[j].id : j \in 1..Len(item.medications)}

\* the handler invocations and the sweeps in progress, other than `who`,
\* that hold a copy of user u's item that they have still to process (an
\* invocation that has only its reply to send saves nothing any more)
HandlerCopies(u, who) ==
  {<<"h", k>> : k \in {j \in DOMAIN h : h[j].u = u /\ h[j].pc # "reply"}} \ {who}

SweepCopies(u, who) ==
  {<<"s", sw[p].serial>> :
     p \in {q \in Procs :
              /\ sw[q].pc = "loop"
              /\ \E i \in sw[q].i..Len(sw[q].users) : sw[q].users[i].chat_id = u}}
    \ {who}

\* The history of a write of `item` to user u's record by `who`: <<"h", k>>
\* for handler invocation k, <<"s", n>> for the sweep of serial n.
HistAfter(u, who, item, kind) ==
  LET cur == GetUserData(u)
      spoiled == {[d EXCEPT !.ok = @ /\ who \notin d.readers] : d \in hist[u].deleted}
  IN
  [hist EXCEPT ![u] =
     [tz |-> IF item.timezone # cur.timezone THEN @.tz + 1 ELSE @.tz,
      gone |-> @.gone \cup (MedIds(cur) \ MedIds(item)),
      hpre |-> IF who[1] = "s" THEN HandlerCopies(u, who) ELSE @.hpre \ {who},
      hlost |-> IF who \in @.hpre THEN @.hlost + 1 ELSE @.hlost,
      spre |-> IF who[1] = "h" THEN SweepCopies(u, who) ELSE @.spre \ {who},
      slost |-> IF who \in @.spre THEN @.slost + 1 ELSE @.slost,
      stale |-> (@.stale \ {who}) \cup HandlerCopies(u, who) \cup SweepCopies(u, who),
      last |-> kind,
      again |-> (kind = @.last /\ who \notin @.stale),
      deleted |->
        IF kind[1] = "delete"
        THEN {d \in spoiled : d.name # Lower(kind[2][1])}
               \cup {[name |-> Lower(kind[2][1]),
                      readers |-> HandlerCopies(u, who) \cup SweepCopies(u, who),
                      ok |-> TRUE]}
        ELSE IF kind[1] = "add"
        THEN {d \in spoiled : d.name # Lower(kind[2][1])}
        ELSE spoiled]]

\* ------------------------------------------------------------------ clock
\* The clock moves to the next of the observed instants, whatever the
\* invocations in progress are doing: each reads it when it calls utcnow().
TickIn(instants) ==
  /\ \E t \in instants :
       /\ t > now
       /\ \A x \in instants : x > now => t <= x
       /\ now' = t
  /\ UNCHANGED <<store, sw, sem, h, resp, log, failed, hist, overlap, nextId, ncmd, nsweep>>

Tick == TickIn(Instants)

\* ------------------------------------------------------------------ sweep
\* send_reminders_async up to now_utc = datetime.utcnow(), started by
\* asyncio.run in process p: a new event loop, so a semaphore bound to the
\* previous one is now bound to a loop that is not running.
SweepStart(p) ==
  /\ sw[p].pc = "idle"
  /\ nsweep < MaxSweeps
  /\ nsweep' = nsweep + 1
  /\ sw' = [sw EXCEPT ![p] =
              [pc |-> "scan", now_utc |-> now, users |-> <<>>, i |-> 1,
               tasks |-> <<>>, st |-> <<>>, serial |-> nsweep + 1, saved |-> <<>>]]
  /\ sem' = [sem EXCEPT ![p] = IF @ = "current" THEN "stale" ELSE @]
  /\ overlap' = (overlap \/ \E q \in Procs \ {p} : sw[q].pc # "idle")
  /\ UNCHANGED <<now, store, h, resp, log, failed, hist, nextId, ncmd>>

\* response = table.scan(); users = response.get("Items", [])
SweepScan(p) ==
  /\ sw[p].pc = "scan"
  /\ \E order \in ScanOrders :
       sw' = [sw EXCEPT ![p].pc = "loop", ![p].users = Scan(order)]
  /\ UNCHANGED <<now, store, sem, h, resp, log, failed, hist, overlap, nextId,
                 ncmd, nsweep>>

\* the history's entries for the sends a sweep adds for one user: the
\* sweep, the send's place in its task list, the entry and fire time, the
\* user's local date, and the user's history counters at that moment
LogEntries(p, user, tasks) ==
  {[sw |-> sw[p].serial, k |-> Len(sw[p].tasks) + k, u |-> user.chat_id,
    id |-> tasks[k].id, t |-> tasks[k].time,
    date |-> DateOf(ToLocal(sw[p].now_utc, ResolveZone(user.timezone))),
    tz |-> hist[user.chat_id].tz, hlost |-> hist[user.chat_id].hlost] :
     k \in 1..Len(tasks)}

\* a loop body that reads the user's record again before it evaluates it
SweepUser_Rereads(p) ==
  /\ sw[p].pc = "loop"
  /\ sw[p].i <= Len(sw[p].users)
  /\ LET user == GetUserData(sw[p].users[sw[p].i].chat_id)
         r == EvalUser(user, sw[p].now_utc)
     IN /\ sw' = [sw EXCEPT ![p].users[sw[p].i] = r.user,
                            ![p].i = @ + 1,
                            ![p].tasks = @ \o r.tasks,
                            ![p].saved = IF r.modified THEN Append(@, user.chat_id) ELSE @]
        /\ log' = log \cup LogEntries(p, user, r.tasks)
        /\ IF r.modified
           THEN /\ store' = PutItem(store, r.user)
                /\ hist' = HistAfter(user.chat_id, <<"s", sw[p].serial>>, r.user,
                                          <<"sweep">>)
           ELSE UNCHANGED <<store, hist>>
  /\ UNCHANGED <<now, sem, h, resp, failed, overlap, nextId, ncmd, nsweep>>

\* the loop body for the next scanned user, with its save_user_data
SweepUser(p) ==
  /\ sw[p].pc = "loop"
  /\ sw[p].i <= Len(sw[p].users)
  /\ LET user == sw[p].users[sw[p].i]
         r == EvalUser(user, sw[p].now_utc)
     IN /\ sw' = [sw EXCEPT ![p].users[sw[p].i] = r.user,
                            ![p].i = @ + 1,
                            ![p].tasks = @ \o r.tasks,
                            ![p].saved = IF r.modified THEN Append(@, user.chat_id) ELSE @]
        /\ log' = log \cup LogEntries(p, user, r.tasks)
        /\ IF r.modified
           THEN /\ store' = PutItem(store, r.user)
                /\ hist' = HistAfter(user.chat_id, <<"s", sw[p].serial>>, r.user,
                                          <<"sweep">>)
           ELSE UNCHANGED <<store, hist>>
  /\ UNCHANGED <<now, sem, h, resp, failed, overlap, nextId, ncmd, nsweep>>

\* The states of a send: "waiting" at the semaphore, "inflight" inside
\* bot.send_message, "ok", "failed" (the exception is caught and logged),
\* "raised" (the semaphore raised in the task), "cancelled".
Inflight(st) == {k \in 1..Len(st) : st[k] = "inflight"}

\* if tasks: await asyncio.gather(*tasks).  The tasks start in order: the
\* first SEM_LIMIT take the semaphore at once; the next one has to wait, which
\* binds the semaphore to the running loop, or raises RuntimeError when it is
\* bound to an earlier loop.  gather then raises, the except clause logs it,
\* send_reminders_async returns and asyncio.run cancels the tasks still
\* running.
SweepGather(p) ==
  /\ sw[p].pc = "loop"
  /\ sw[p].i > Len(sw[p].users)
  /\ LET n == Len(sw[p].tasks) IN
     IF n = 0 THEN /\ sw' = [sw EXCEPT ![p] = IdleSweep]
                   /\ sem' = sem
     ELSE IF n <= SEM_LIMIT
     THEN /\ sw' = [sw EXCEPT ![p].pc = "gather",
                              ![p].st = [k \in 1..n |-> "inflight"]]
          /\ sem' = sem
     ELSE IF sem[p] = "stale"
     THEN /\ sw' = [sw EXCEPT ![p].pc = "gather",
                              ![p].st = [k \in 1..n |->
                                 IF k <= SEM_LIMIT THEN "cancelled" ELSE "raised"]]
          /\ sem' = sem
     ELSE /\ sw' = [sw EXCEPT ![p].pc = "gather",
                              ![p].st = [k \in 1..n |->
                                 IF k <= SEM_LIMIT THEN "inflight" ELSE "waiting"]]
          /\ sem' = [sem EXCEPT ![p] = "current"]
  /\ UNCHANGED <<now, store, h, resp, log, failed, hist, overlap, nextId, ncmd, nsweep>>

\* the semaphore's release: the longest-waiting task takes the slot
WakeNext(st) ==
  IF \E k \in 1..Len(st) : st[k] = "waiting"
  THEN LET k == CHOOSE k \in 1..Len(st) :
                  st[k] = "waiting" /\ \A j \in 1..(k - 1) : st[j] # "waiting"
       IN [st EXCEPT ![k] = "inflight"]
  ELSE st

\* a send without the try/except: the exception leaves the task, gather
\* raises, the sweep returns and asyncio.run cancels the other sends
AfterSend_Propagates(st, k, ok) ==
  IF ok THEN WakeNext([st EXCEPT ![k] = "ok"])
  ELSE [j \in 1..Len(st) |->
          IF j = k THEN "raised"
          ELSE IF st[j] \in {"inflight", "waiting"} THEN "cancelled" ELSE st[j]]

\* send_message_with_limit once bot.send_message has returned (ok) or raised
\* (the except clause logs it): the async with block releases the semaphore
AfterSend(st, k, ok) ==
  WakeNext([st EXCEPT ![k] = IF ok THEN "ok" ELSE "failed"])

\* the end of a send
SendDone(p, k, ok) ==
  /\ sw[p].pc = "gather"
  /\ k \in Inflight(sw[p].st)
  /\ sw' = [sw EXCEPT ![p].st = AfterSend(@, k, ok)]
  /\ failed' = IF ok THEN failed ELSE failed \cup {<<sw[p].serial, k>>}
  /\ UNCHANGED <<now, store, sem, h, resp, log, hist, overlap, nextId, ncmd, nsweep>>

\* gather returns (or has raised): the invocation ends
SweepFinish(p) ==
  /\ sw[p].pc = "gather"
  /\ \A k \in 1..Len(sw[p].st) : sw[p].st[k] \notin {"inflight", "waiting"}
  /\ sw' = [sw EXCEPT ![p] = IdleSweep]
  /\ UNCHANGED <<now, store, sem, h, resp, log, failed, hist, overlap, nextId, ncmd, nsweep>>

\* --------------------------------------------------------------- handlers
\* An update handed to a handler that restricted lets through: get_user_data
\* and the handler's decision `out`.  When the handler does not write, this
\* is also its reply; when it writes, the invocation stays in h until
\* HandlerWrite.  Invocations run in separate processes, any number at once.
Handle(op, u, args, out) ==
  /\ Allowed(u)
  /\ ncmd < MaxCmds
  /\ ncmd' = ncmd + 1
  /\ h' = HandlerAdd(h, ncmd + 1,
                     [op |-> op, u |-> u, args |-> args,
                      base |-> GetUserData(u),
                      pc |-> IF out.write THEN "write" ELSE "reply",
                      at |-> now, out |-> out])
  /\ UNCHANGED <<now, store, sw, sem, resp, log, failed, hist, overlap, nsweep>>

CmdStart(u) ==
  /\ Handle("start", u, <<>>, Start(GetUserData(u)))
  /\ UNCHANGED nextId

CmdAdd(u, args) ==
  /\ Handle("add", u, args, AddMedicine(GetUserData(u), args, nextId))
  /\ nextId' = IF Len(args) < 3 THEN nextId ELSE nextId + 1

CmdDelete(u, args) ==
  /\ Handle("delete", u, args, DeleteMedicine(GetUserData(u), args))
  /\ UNCHANGED nextId

CmdSetTimezone(u, args) ==
  /\ Handle("settimezone", u, args, SetTimezone(GetUserData(u), args))
  /\ UNCHANGED nextId

CmdList(u) ==
  /\ Handle("list", u, <<>>, ListMedicines(GetUserData(u)))
  /\ UNCHANGED nextId

CmdSetLanguage(u, args) ==
  /\ Handle("setlanguage", u, args, SetLanguage(GetUserData(u), args))
  /\ UNCHANGED nextId

TextMessage(u) ==
  /\ Handle("echo", u, <<>>, Echo(GetUserData(u)))
  /\ UNCHANGED nextId

\* restricted, for an account that is not allowed: a message is answered
\* "Access denied", a pressed button is not answered
Denied(u, isMessage) ==
  /\ ~Allowed(u)
  /\ ncmd < MaxCmds
  /\ ncmd' = ncmd + 1
  /\ resp' = IF isMessage
             THEN [n |-> ncmd + 1, op |-> "restricted", u |-> u, args |-> <<>>,
                   reply |-> "access_denied"]
             ELSE resp
  /\ UNCHANGED <<now, store, sw, sem, h, log, failed, hist, overlap, nextId, nsweep>>

\* a callback query whose data the pattern of callback_acknowledge does not
\* match: no handler takes it
Unhandled(u, data) ==
  /\ ~MatchesAckPattern(data)
  /\ ncmd < MaxCmds
  /\ ncmd' = ncmd + 1
  /\ UNCHANGED <<now, store, sw, sem, h, resp, log, failed, hist, overlap, nextId,
                 nsweep>>

\* callback_acknowledge up to the check of the data's shape: get_user_data,
\* then on to the reply ack_invalid or to utcnow()
CallbackAck(u, data) ==
  /\ MatchesAckPattern(data)
  /\ Allowed(u)
  /\ ncmd < MaxCmds
  /\ ncmd' = ncmd + 1
  /\ h' = HandlerAdd(h, ncmd + 1,
                     [op |-> "ack", u |-> u, args |-> data,
                      base |-> GetUserData(u),
                      pc |-> IF AckShapeOk(data) THEN "clock" ELSE "reply",
                      at |-> 0,
                      out |-> NoWrite(GetUserData(u),
                                      IF AckShapeOk(data) THEN "" ELSE "ack_invalid")])
  /\ UNCHANGED <<now, store, sw, sem, resp, log, failed, hist, overlap, nextId, nsweep>>

\* callback_acknowledge from today_str = utcnow()... through the loop over
\* the medications, on to save_user_data or to the reply when no entry
\* matches
AckClock(k) ==
  /\ k \in DOMAIN h
  /\ h[k].pc = "clock"
  /\ LET out == Acknowledge(h[k].base, h[k].args, now) IN
     h' = [h EXCEPT ![k].pc = IF out.write THEN "write" ELSE "reply",
                    ![k].at = now, ![k].out = out]
  /\ UNCHANGED <<now, store, sw, sem, resp, log, failed, hist, overlap, nextId, ncmd,
                 nsweep>>

\* save_user_data(user_data): table.put_item has returned, the reply is
\* still to be sent
HandlerWrite(k) ==
  /\ k \in DOMAIN h
  /\ h[k].pc = "write"
  /\ store' = PutItem(store, h[k].out.rec)
  /\ hist' = HistAfter(h[k].u, <<"h", k>>, h[k].out.rec,
                       <<h[k].op, h[k].args,
                         DateOf(ToLocal(h[k].at, ResolveZone(h[k].base.timezone)))>>)
  /\ h' = [h EXCEPT ![k].pc = "reply"]
  /\ UNCHANGED <<now, sw, sem, resp, log, failed, overlap, nextId, ncmd, nsweep>>

\* await reply_text(...) / edit_message_text(...): the invocation's reply is
\* sent and the invocation ends
HandlerReply(k) ==
  /\ k \in DOMAIN h
  /\ h[k].pc = "reply"
  /\ resp' = [n |-> k, op |-> h[k].op, u |-> h[k].u, args |-> h[k].args,
              reply |-> h[k].out.reply]
  /\ h' = HandlerEnd(h, k)
  /\ UNCHANGED <<now, store, sw, sem, log, failed, hist, overlap, nextId, ncmd,
                 nsweep>>

\* the steps of the handler invocations in progress
ClockStep == \E k \in DOMAIN h : AckClock(k)

WriteStep == \E k \in DOMAIN h : HandlerWrite(k)

ReplyStep == \E k \in DOMAIN h : HandlerReply(k)

\* the specifications without the acknowledge handler take these
CommandStep == WriteStep \/ ReplyStep

HandlerStep == ClockStep \/ WriteStep \/ ReplyStep

\* ------------------------------------------------------- the specification
\* The steps of process p's sweep; send_message raises at most for the sends
\* at the places in mayFail, and at most `most` sweeps are started.
SweepStepUpTo(p, mayFail, most) ==
  \/ nsweep < most /\ SweepStart(p)
  \/ SweepScan(p)
  \/ SweepUser(p)
  \/ SweepGather(p)
  \/ \E k \in 1..(SendMeds + 1), ok \in BOOLEAN :
       (ok \/ k \in mayFail) /\ SendDone(p, k, ok)
  \/ SweepFinish(p)

SweepStepWith(p, mayFail) == SweepStepUpTo(p, mayFail, MaxSweeps)

SweepStep(p) == SweepStepWith(p, 1..(SendMeds + 1))

\* One user, one process: its sweeps run one after the other, and the
\* handlers run beside them.
AddArgs == {<<NameAs, Dose, T1800>>}
ZoneArgs == {<<"Asia/Tokyo">>}

\* the instants of the first UTC day: 08:59, 09:00 and 21:00 UTC, which in
\* Asia/Tokyo are 17:59 and 18:00 of that day and 06:00 of the next
FirstDay == {t \in Instants : t < MinutesPerDay}

\* The table at the start: empty, or one user with one entry of two fire
\* times.
FirstLists == {<<>>, <<[name |-> NameAs, times |-> <<T0900, T1800>>]>>}

Init ==
  /\ now = 539
  /\ \E l \in FirstLists :
       /\ store = [u \in (IF Len(l) = 0 THEN {} ELSE {"u1"}) |->
                     [DefaultUser(u) EXCEPT !.medications =
                        [j \in 1..Len(l) |->
                           NewMedication(j, l[j].name, Dose, l[j].times)]]]
       /\ nextId = Len(l) + 1
  /\ sw = [p \in Procs |-> IdleSweep]
  /\ sem = [p \in Procs |-> "unbound"]
  /\ h = NoHandlers
  /\ resp = NoReply
  /\ log = {}
  /\ failed = {}
  /\ hist = [u \in Users |-> NoHist]
  /\ overlap = FALSE
  /\ ncmd = 0
  /\ nsweep = 0

Next ==
  \/ TickIn(FirstDay)
  \/ SweepStepWith(1, {1})
  \/ ncmd < MaxPress /\ \E args \in AddArgs : CmdAdd("u1", args)
  \/ ncmd < MaxPress /\ CallbackAck("u1", CallbackData(NameAs, T0900))
  \/ HandlerStep

Spec == Init /\ [][Next]_vars

\* Two users, one process: the sweep goes through both records.
UserAddArgs == [u \in Users |->
  IF u = "u1" THEN <<NameAs, Dose, T0900>> ELSE <<NameB, Dose, T1800>>]

InitUsers ==
  /\ now = 539
  /\ store = [u \in Users |->
                [DefaultUser(u) EXCEPT !.medications =
                   <<NewMedication(IF u = "u1" THEN 1 ELSE 2, UserAddArgs[u][1],
                                   Dose, <<UserAddArgs[u][3]>>)>>]]
  /\ nextId = 3
  /\ sw = [p \in Procs |-> IdleSweep]
  /\ sem = [p \in Procs |-> "unbound"]
  /\ h = NoHandlers
  /\ resp = NoReply
  /\ log = {}
  /\ failed = {}
  /\ hist = [u \in Users |-> NoHist]
  /\ overlap = FALSE
  /\ ncmd = 0
  /\ nsweep = 0

NextUsers ==
  \/ TickIn(FirstDay)
  \/ SweepStepWith(1, {})
  \/ ncmd < MaxPress /\ \E u \in Users : CmdAdd(u, UserAddArgs[u])
  \/ CommandStep

SpecUsers == InitUsers /\ [][NextUsers]_vars

\* One user whose list has been built by earlier add commands (which never
\* compare names: two entries may differ in case only), and the commands
\* and buttons that look entries up by name.
Entry(name, times) == [name |-> name, times |-> times]

CmdLists ==
  {<<Entry(NameLower, <<T0900>>), Entry(NameAs, <<T0900, T1800>>)>>,
   <<Entry(NameAs, <<T0900, T1800>>), Entry(NameB, <<T1800>>)>>}

ListOf(l) == [j \in 1..Len(l) |-> NewMedication(j, l[j].name, Dose, l[j].times)]

InitCmd ==
  /\ now = 539
  /\ \E l \in CmdLists :
       /\ store = [u \in {"u1"} |->
                     [DefaultUser("u1") EXCEPT !.medications = ListOf(l)]]
       /\ nextId = Len(l) + 1
  /\ sw = [p \in Procs |-> IdleSweep]
  /\ sem = [p \in Procs |-> "unbound"]
  /\ h = NoHandlers
  /\ resp = NoReply
  /\ log = {}
  /\ failed = {}
  /\ hist = [u \in Users |-> NoHist]
  /\ overlap = FALSE
  /\ ncmd = 0
  /\ nsweep = 0

CmdAddArgs == {<<NameAs, Dose, T0900>>}
CmdDeleteNames == {NameUpper}
\* a name in another case than the stored one's, a fire time that only the
\* second of two entries of a name holds, and a name that one of the lists
\* lacks with a fire time that its entry in the other list does not hold
AckPairs == {<<NameLower, T0900>>, <<NameUpper, T1800>>, <<NameB, T0900>>}

\* 08:59 UTC of the first day, and 09:00 UTC of every day
CmdInstants == {t \in Instants : t = 539 \/ t % MinutesPerDay = 540}

NextCmd ==
  \/ TickIn(CmdInstants)
  \/ \E args \in CmdAddArgs : CmdAdd("u1", args)
  \/ \E x \in AckPairs : CallbackAck("u1", CallbackData(x[1], x[2]))
  \/ CmdStart("u1")
  \/ CmdList("u1")
  \/ TextMessage("u1")
  \/ \E u \in Strangers, isMessage \in BOOLEAN : Denied(u, isMessage)
  \/ HandlerStep

SpecCmd == InitCmd /\ [][NextCmd]_vars

\* The same lists with a delete command, the add command and the button for
\* the deleted name, and a sweep beside them at the time the entries are due.
\* One user with three entries, two of them with names that differ in case
\* only, at 09:00 UTC, when one of these is due.
InitDelete ==
  /\ now = 540
  /\ store = [u \in {"u1"} |->
                [DefaultUser("u1") EXCEPT !.medications =
                   ListOf(<<Entry(NameLower, <<T0900>>), Entry(NameAs, <<T1800>>),
                            Entry(NameB, <<T1800>>)>>)]]
  /\ nextId = 4
  /\ sw = [p \in Procs |-> IdleSweep]
  /\ sem = [p \in Procs |-> "unbound"]
  /\ h = NoHandlers
  /\ resp = NoReply
  /\ log = {}
  /\ failed = {}
  /\ hist = [u \in Users |-> NoHist]
  /\ overlap = FALSE
  /\ ncmd = 0
  /\ nsweep = 0

NextDelete ==
  \/ SweepStepUpTo(1, {}, MaxPass)
  \/ \E args \in CmdAddArgs : CmdAdd("u1", args)
  \/ \E n \in CmdDeleteNames : CmdDelete("u1", <<n>>)
  \/ CallbackAck("u1", CallbackData(NameLower, T0900))
  \/ HandlerStep

SpecDelete == InitDelete /\ [][NextDelete]_vars

\* Stored data that the commands accept as they come: a timezone string that
\* ZoneInfo does not know (set_timezone stores any string) and fire times
\* that strptime does not parse (add_medicine stores any strings).
FaultyZones == {<<"Bogus/Zone">>, <<"">>}

FaultyList ==
  <<NewMedication(1, NameAs, Dose, <<TBad, T0900>>),
    NewMedication(2, NameB, Dose, <<T2400>>),
    NewMedication(3, NameLower, Dose, <<T1800, TBad>>)>>

InitFaulty ==
  /\ now = 539
  /\ \E z \in FaultyZones :
       store = [u \in Users |->
                  IF u = "u1"
                  THEN [DefaultUser(u) EXCEPT !.timezone = z[1],
                                              !.medications = FaultyList]
                  ELSE [DefaultUser(u) EXCEPT !.timezone = "Asia/Tokyo",
                          !.medications =
                            <<NewMedication(4, NameAs, Dose, <<T2400, T1800>>)>>]]
  /\ nextId = 5
  /\ sw = [p \in Procs |-> IdleSweep]
  /\ sem = [p \in Procs |-> "unbound"]
  /\ h = NoHandlers
  /\ resp = NoReply
  /\ log = {}
  /\ failed = {}
  /\ hist = [u \in Users |-> NoHist]
  /\ overlap = FALSE
  /\ ncmd = 0
  /\ nsweep = 0

FaultyAckPairs == {<<NameLower, T1800>>, <<NameB, T2400>>}

NextFaulty ==
  \/ TickIn(FirstDay)
  \/ SweepStepUpTo(1, {}, MaxPass)
  \/ /\ ncmd < MaxPress
     /\ \E x \in FaultyAckPairs : CallbackAck("u1", CallbackData(x[1], x[2]))
  \/ HandlerStep

SpecFaulty == InitFaulty /\ [][NextFaulty]_vars

\* Callback data: the buttons of the reminders that the sweep sends for
\* entries whose names hold the delimiter or differ in case only, and data
\* of other shapes.
DataLists ==
  {<<Entry(NamePipe, <<T0900>>)>>,
   <<Entry(NameAs, <<T0900>>), Entry(NameLower, <<T0900>>)>>,
   <<Entry(NameB, <<T0900>>)>>}

InitData ==
  /\ now = 539
  /\ \E l \in DataLists :
       /\ store = [u \in {"u1"} |->
                     [DefaultUser("u1") EXCEPT !.medications = ListOf(l)]]
       /\ nextId = Len(l) + 1
  /\ sw = [p \in Procs |-> IdleSweep]
  /\ sem = [p \in Procs |-> "unbound"]
  /\ h = NoHandlers
  /\ resp = NoReply
  /\ log = {}
  /\ failed = {}
  /\ hist = [u \in Users |-> NoHist]
  /\ overlap = FALSE
  /\ ncmd = 0
  /\ nsweep = 0

\* "ack|B", "nak|B|09:00", "ack|B|09:00|"
RawData ==
  {<<"a", "c", "k", "|">> \o NameB,
   <<"n", "a", "k", "|">> \o NameB \o <<"|">> \o T0900,
   CallbackData(NameB, T0900) \o <<"|">>}

ButtonData == {CallbackData(n, T0900) : n \in {NamePipe, NameAs, NameLower, NameB}}

NextData ==
  \/ TickIn(FirstDay)
  \/ SweepStepUpTo(1, {}, MaxPass)
  \/ /\ ncmd < MaxPress
     /\ \E data \in RawData \cup ButtonData :
          CallbackAck("u1", data) \/ Unhandled("u1", data)
  \/ HandlerStep

SpecData == InitData /\ [][NextData]_vars

\* One user with one entry with one fire time, over several days, with a
\* change of timezone and the reminders' button.
InitDays ==
  /\ now = 539
  /\ store = [u \in {"u1"} |->
                [DefaultUser("u1") EXCEPT !.medications =
                   <<NewMedication(1, NameAs, Dose, <<T0900>>)>>]]
  /\ nextId = 2
  /\ sw = [p \in Procs |-> IdleSweep]
  /\ sem = [p \in Procs |-> "unbound"]
  /\ h = NoHandlers
  /\ resp = NoReply
  /\ log = {}
  /\ failed = {}
  /\ hist = [u \in Users |-> NoHist]
  /\ overlap = FALSE
  /\ ncmd = 0
  /\ nsweep = 0

\* 08:59 and 09:00 UTC of every day
DayInstants == {t \in Instants : t % MinutesPerDay \in {539, 540}}

NextDays ==
  \/ TickIn(DayInstants)
  \/ SweepStepWith(1, {})
  \/ ncmd < MaxPress /\ CallbackAck("u1", CallbackData(NameAs, T0900))
  \/ HandlerStep

SpecDays == InitDays /\ [][NextDays]_vars

\* The same user over the nights: 21:00 UTC of one day, which is 06:00 of
\* the next in Asia/Tokyo, and 08:59 UTC of the next, while the timezone is
\* changed.
ZoneInstants == {t \in Instants : t % MinutesPerDay = 1260 \/ (t > 1260 /\ t % MinutesPerDay = 539)}

NextZone ==
  \/ TickIn(ZoneInstants)
  \/ SweepStepWith(1, {})
  \/ ncmd < MaxPress /\ \E args \in ZoneArgs : CmdSetTimezone("u1", args)
  \/ CommandStep

SpecZone == InitDays /\ [][NextZone]_vars

\* One user with two entries that fall due at different times of one day,
\* every handler that writes, and the sweep beside them.
InitLost ==
  /\ now = 540
  /\ store = [u \in {"u1"} |->
                [DefaultUser("u1") EXCEPT !.medications =
                   <<NewMedication(1, NameAs, Dose, <<T0900>>),
                     NewMedication(2, NameB, Dose, <<T1800>>)>>]]
  /\ nextId = 3
  /\ sw = [p \in Procs |-> IdleSweep]
  /\ sem = [p \in Procs |-> "unbound"]
  /\ h = NoHandlers
  /\ resp = NoReply
  /\ log = {}
  /\ failed = {}
  /\ hist = [u \in Users |-> NoHist]
  /\ overlap = FALSE
  /\ ncmd = 0
  /\ nsweep = 0

NextLost ==
  \/ TickIn({1260})
  \/ SweepStepWith(1, {})
  \/ /\ ncmd < MaxPress
     /\ \/ CmdAdd("u1", <<NameLower, Dose, T0900>>)
        \/ CmdDelete("u1", <<NameB>>)
        \/ CmdSetTimezone("u1", <<"Asia/Tokyo">>)
        \/ CmdSetLanguage("u1", <<<<"E", "N">>>>)
        \/ CallbackAck("u1", CallbackData(NameAs, T0900))
  \/ HandlerStep

SpecLost == InitLost /\ [][NextLost]_vars

\* One user with one entry due, and two processes whose sweeps may overlap.
NextOverlap ==
  \/ TickIn(FirstDay)
  \/ SweepStepWith(1, {})
  \/ SweepStepWith(2, {})

SpecOverlap == InitDays /\ [][NextOverlap]_vars

\* One user whose timezone is UTC, Asia/Tokyo or one that does not resolve,
\* with entries for 18:00 and 21:00: 09:00 UTC is 18:00 in Asia/Tokyo, and
\* 21:00 UTC is 06:00 of the next day there.
LocalZones == {"UTC", "Asia/Tokyo", "Bogus/Zone"}

InitLocal ==
  /\ now = 539
  /\ \E z \in LocalZones :
       store = [u \in {"u1"} |->
                  [DefaultUser("u1") EXCEPT
                     !.timezone = z,
                     !.medications =
                       <<NewMedication(1, NameAs, Dose, <<T1800>>),
                         NewMedication(2, NameB, Dose, <<T2100>>)>>]]
  /\ nextId = 3
  /\ sw = [p \in Procs |-> IdleSweep]
  /\ sem = [p \in Procs |-> "unbound"]
  /\ h = NoHandlers
  /\ resp = NoReply
  /\ log = {}
  /\ failed = {}
  /\ hist = [u \in Users |-> NoHist]
  /\ overlap = FALSE
  /\ ncmd = 0
  /\ nsweep = 0

NextLocal ==
  \/ TickIn(FirstDay)
  \/ SweepStepWith(1, {})
  \/ ncmd < MaxPress /\ CallbackAck("u1", CallbackData(NameAs, T1800))
  \/ HandlerStep

SpecLocal == InitLocal /\ [][NextLocal]_vars

\* One user with more reminders due than the semaphore has slots, one
\* process that stays warm from one scheduled invocation to the next.
InitSend ==
  /\ now = 540
  /\ store = [u \in {"u1"} |->
                [DefaultUser("u1") EXCEPT !.medications =
                   [j \in 1..SendMeds |-> NewMedication(j, NameAs, Dose, <<T0900>>)]]]
  /\ nextId = SendMeds + 1
  /\ sw = [p \in Procs |-> IdleSweep]
  /\ sem = [p \in Procs |-> "unbound"]
  /\ h = NoHandlers
  /\ resp = NoReply
  /\ log = {}
  /\ failed = {}
  /\ hist = [u \in Users |-> NoHist]
  /\ overlap = FALSE
  /\ ncmd = 0
  /\ nsweep = 0

NextSend ==
  \/ Tick
  \/ SweepStepWith(1, {1, SendMeds})

SpecSend == InitSend /\ [][NextSend]_vars

\* ------------------------------------------------------------------ claims
\* Two sends of the history for the same entry, fire time and local date.
SameReminder(e1, e2) ==
  /\ e1 # e2
  /\ e1.u = e2.u /\ e1.id = e2.id /\ e1.t = e2.t /\ e1.date = e2.date

\* The later of the two was added while the user's timezone was as at the
\* earlier one and the entry had stayed in the stored list.
SameZoneAndEntry(e1, e2) ==
  /\ e1.tz = e2.tz
  /\ e1.id \notin hist[e1.u].gone

\* The sweep of process p has gone through all the users it scanned.
LoopDone(p) == sw[p].pc = "loop" /\ sw[p].i > Len(sw[p].users)

\* C1 as stated: with serial sweeps, the timezone unchanged and the entry
\* kept, no (medication, fire time) gets two reminders on one local date.
C1_AtMostOncePerDay ==
  ~overlap =>
    \A e1, e2 \in log : SameReminder(e1, e2) => ~SameZoneAndEntry(e1, e2)

\* C1, amended: the same, for reminders between which no handler wrote the
\* user's item from a copy it had read before the sweep's write of the stamp.
C1_AtMostOncePerDayNoLostStamp ==
  ~overlap =>
    \A e1, e2 \in log :
      SameReminder(e1, e2) /\ e1.hlost = e2.hlost => ~SameZoneAndEntry(e1, e2)

\* C1 witness: a reminder was sent by an earlier sweep, and a later sweep of
\* the same local date has gone through the same entry without sending.
C1_Witness ==
  \E e \in log, p \in Procs :
    /\ LoopDone(p) /\ sw[p].serial > e.sw
    /\ \E i \in 1..Len(sw[p].users) :
         LET user == sw[p].users[i] IN
         /\ user.chat_id = e.u
         /\ e.id \in MedIds(user)
         /\ DateOf(ToLocal(sw[p].now_utc, ResolveZone(user.timezone))) = e.date
    /\ hist[e.u].tz = e.tz /\ hist[e.u].hlost = e.hlost
    /\ e.id \notin hist[e.u].gone
    /\ ~\E e2 \in log : SameReminder(e, e2)

\* What the claims say of a user record, a medication entry and a fire time,
\* written out apart from the operators that model the code.
LocalNow(user, now_utc) ==
  now_utc + (IF user.timezone = "Asia/Tokyo" THEN 540 ELSE 0)

Today(user, now_utc) == LocalNow(user, now_utc) \div 1440

\* the minutes after midnight of a well-formed fire time
FireMinute(t) ==
  CASE t = T0900 -> 540 [] t = T900 -> 540 [] t = T1800 -> 1080
    [] t = T2100 -> 1260 [] OTHER -> -1

WellFormed(t) == FireMinute(t) >= 0

Reached(user, t, now_utc) ==
  LocalNow(user, now_utc) >= Today(user, now_utc) * 1440 + FireMinute(t)

HoldsAck(med, t, d) == \E x \in DOMAIN med.acknowledged : x = t /\ med.acknowledged[x] = d

StampedOn(med, d) ==
  \E i \in 1..Len(med.last_reminder_time) : med.last_reminder_time[i].wall \div 1440 = d

Sent(u, id, t, d) == \E e \in log : e.u = u /\ e.id = id /\ e.t = t /\ e.date = d

\* The users that the sweep of process p has gone through, as it holds them.
Processed(p) ==
  IF sw[p].pc = "idle" THEN {}
  ELSE {sw[p].users[i] : i \in 1..(sw[p].i - 1)}

\* C2: once a sweep has gone through a user at a local time at or after a
\* well-formed fire time that is not acknowledged today, a reminder for that
\* (medication, fire time) has been sent today: by this sweep, if by none
\* before.
C2_EveryFireTimeReminded ==
  \A p \in Procs : \A user \in Processed(p) :
    \A j \in 1..Len(user.medications) :
      LET med == user.medications[j] IN
      \A i \in 1..Len(med.times) :
        LET t == med.times[i] IN
        (/\ WellFormed(t)
         /\ ~HoldsAck(med, t, Today(user, sw[p].now_utc))
         /\ Reached(user, t, sw[p].now_utc))
        => Sent(user.chat_id, med.id, t, Today(user, sw[p].now_utc))

\* The step in which the sweep of process p goes through its next user.
IsSweepUser(p) ==
  sw[p].pc = "loop" /\ sw'[p].pc = "loop" /\ sw'[p].i = sw[p].i + 1

\* An earlier fire time of the entry is sent in the same pass, which stamps
\* the entry before fire time number i is looked at.
EarlierSent(user, med, i, now_utc) ==
  \E k \in 1..(i - 1) :
    /\ WellFormed(med.times[k])
    /\ ~HoldsAck(med, med.times[k], Today(user, now_utc))
    /\ Reached(user, med.times[k], now_utc)

\* C3: a well-formed fire time that is not acknowledged today, of an entry
\* whose stamp is not dated today when the sweep looks at it, gets a reminder
\* if and only if the user's local time has reached it; no reminder is sent
\* for a fire time that the local time has not reached.
C3_DueIffTimeReached ==
  [][\A p \in Procs : IsSweepUser(p) =>
       LET user == sw[p].users[sw[p].i]
           now_utc == sw[p].now_utc
           new == log' \ log
       IN /\ \A e \in new : WellFormed(e.t) /\ Reached(user, e.t, now_utc)
          /\ \A j \in 1..Len(user.medications) :
               LET med == user.medications[j] IN
               \A i \in 1..Len(med.times) :
                 LET t == med.times[i] IN
                 (/\ WellFormed(t)
                  /\ ~HoldsAck(med, t, Today(user, now_utc))
                  /\ ~StampedOn(med, Today(user, now_utc))
                  /\ ~EarlierSent(user, med, i, now_utc))
                 => ((\E e \in new : e.id = med.id /\ e.t = t)
                       <=> Reached(user, t, now_utc))]_vars

\* C3 witness: for a user in Asia/Tokyo, one sweep has sent a reminder at
\* the very minute of a fire time in local time, which the UTC time of day
\* has not reached, and has left alone a later fire time of another entry.
C3_Witness ==
  \E p \in Procs : \E user \in Processed(p) :
    /\ user.timezone = "Asia/Tokyo"
    /\ \E e \in log :
         /\ e.sw = sw[p].serial /\ e.u = user.chat_id
         /\ LocalNow(user, sw[p].now_utc) =
              Today(user, sw[p].now_utc) * 1440 + FireMinute(e.t)
         /\ sw[p].now_utc % 1440 < FireMinute(e.t)
    /\ \E j \in 1..Len(user.medications) :
         LET med == user.medications[j] IN
         /\ Len(med.last_reminder_time) = 0
         /\ \E i \in 1..Len(med.times) :
              /\ WellFormed(med.times[i])
              /\ ~Reached(user, med.times[i], sw[p].now_utc)

\* C4 as stated: no reminder for (medication, t) is added while the stored
\* record holds acknowledged[t] = today.
C4_NoReminderWhileStoredAck ==
  [][\A e \in log' \ log :
       \A j \in 1..Len(store[e.u].medications) :
         LET med == store[e.u].medications[j] IN
         med.id = e.id => ~HoldsAck(med, e.t, e.date)]_vars

\* C4, amended: a sweep that scanned the record while it held
\* acknowledged[t] = today sends no reminder for (medication, t), whatever
\* the clock time.
C4_NoReminderWhenAckScanned ==
  \A p \in Procs : \A user \in Processed(p) :
    \A j \in 1..Len(user.medications) :
      LET med == user.medications[j] IN
      \A e \in log :
        (e.sw = sw[p].serial /\ e.u = user.chat_id /\ e.id = med.id)
        => ~HoldsAck(med, e.t, e.date)

\* C4 witness: a sweep has gone through an entry with a fire time that is
\* reached and acknowledged today, no reminder for it was sent today, and
\* the entry carries no stamp of today.
C4_Witness ==
  \E p \in Procs : \E user \in Processed(p) :
    \E j \in 1..Len(user.medications) :
      LET med == user.medications[j]
          d == Today(user, sw[p].now_utc)
      IN \E i \in 1..Len(med.times) :
           /\ HoldsAck(med, med.times[i], d)
           /\ Reached(user, med.times[i], sw[p].now_utc)
           /\ ~StampedOn(med, d)
           /\ ~Sent(user.chat_id, med.id, med.times[i], d)

\* A later sweep of the same local date has gone through the entry of send e.
LaterSweepSaw(e) ==
  \E p \in Procs :
    /\ LoopDone(p) /\ sw[p].serial > e.sw
    /\ \E user \in Processed(p) :
         /\ user.chat_id = e.u
         /\ e.id \in MedIds(user)
         /\ Today(user, sw[p].now_utc) = e.date

WasFailed(e) == <<e.sw, e.k>> \in failed

\* C8 as stated, its last part: with serial sweeps, a reminder whose send
\* failed is not sent again on the same local date.
C8_FailedNeverResent ==
  ~overlap =>
    \A e1, e2 \in log :
      WasFailed(e1) /\ SameReminder(e1, e2) => e2.sw <= e1.sw

\* The step in which a send of process p fails.
FailStep(p, k) ==
  /\ sw[p].pc = "gather"
  /\ <<sw[p].serial, k>> \in failed' \ failed

\* C8, amended: a failed send leaves the sweep running and the other sends
\* as they are (a waiting one may take the freed slot), is not tried again,
\* adds no send and leaves the stored records, stamp included, untouched;
\* and with serial sweeps, the timezone unchanged, the entry kept and no
\* handler write from a copy read before the stamp was saved, the reminder
\* is not sent again on the same local date.
C8_FailedSendIsFinal ==
  /\ [][\A p \in Procs : \A k \in 1..Len(sw[p].st) :
          /\ FailStep(p, k) =>
               /\ sw'[p].pc = "gather"
               /\ sw'[p].st[k] = "failed"
               /\ \A j \in (1..Len(sw[p].st)) \ {k} :
                    \/ sw'[p].st[j] = sw[p].st[j]
                    \/ sw[p].st[j] = "waiting" /\ sw'[p].st[j] = "inflight"
               /\ store' = store
               /\ log' = log
          /\ (sw[p].st[k] = "failed" /\ sw'[p].pc = "gather")
               => sw'[p].st[k] = "failed"]_vars
  /\ [](~overlap =>
          \A e1, e2 \in log :
            (WasFailed(e1) /\ SameReminder(e1, e2) /\ e1.hlost = e2.hlost
               /\ SameZoneAndEntry(e1, e2))
            => e2.sw <= e1.sw)

\* C8 witness: a send failed while another send of its sweep was under way,
\* and a later sweep of the same local date has gone through the entry
\* without sending again.
C8_Witness ==
  \E e \in log :
    /\ WasFailed(e)
    /\ \E e2 \in log : e2.sw = e.sw /\ e2.k # e.k
    /\ LaterSweepSaw(e)
    /\ ~\E e2 \in log : SameReminder(e, e2)

\* how often the sweep of process p has saved user u's record
SaveCount(p, u) == Cardinality({i \in 1..Len(sw[p].saved) : sw[p].saved[i] = u})

\* C9: a sweep saves a user's record at most once, and it saves it if and
\* only if it has added a reminder for that user; going through a user
\* without adding a reminder leaves the table as it is.
C9_OneWriteIffStamped ==
  /\ [](\A p \in Procs : \A u \in Users :
          /\ SaveCount(p, u) <= 1
          /\ (sw[p].pc # "idle" /\ \E user \in Processed(p) : user.chat_id = u)
               => (SaveCount(p, u) = 1
                     <=> \E e \in log : e.sw = sw[p].serial /\ e.u = u))
  /\ [][\A p \in Procs :
          (IsSweepUser(p) /\ log' = log)
          => (store' = store /\ sw'[p].saved = sw[p].saved)]_vars

\* C9 witness: a sweep has gone through two users, one with a reminder due
\* and one with medications but nothing due, and has saved only the first.
C9_Witness ==
  \E p \in Procs :
    /\ LoopDone(p)
    /\ Len(sw[p].users) = 2
    /\ Len(sw[p].saved) = 1
    /\ \A i \in 1..2 : Len(sw[p].users[i].medications) > 0
    /\ \E e \in log : e.sw = sw[p].serial

\* Two names are the same ignoring case.
SameIgnoringCase(a, b) ==
  /\ Len(a) = Len(b)
  /\ \A i \in 1..Len(a) :
       \/ a[i] = b[i]
       \/ {a[i], b[i]} \in {{"A", "a"}, {"S", "s"}, {"B", "b"}}

\* The step in which an update is handed to a handler, which reads the
\* record; the invocation that begins (its operation, user and arguments).
Begun == IF (ncmd + 1) \in DOMAIN h' THEN h'[ncmd + 1] ELSE resp'

IsHandle(op) ==
  /\ ncmd' = ncmd + 1
  /\ (ncmd + 1) \in DOMAIN h' \/ resp'.n = ncmd + 1
  /\ Begun.op = op

HandleUser == Begun.u

HandleArgs == Begun.args

\* The step in which invocation k of the acknowledge handler reads the clock
\* and looks for the entry.
IsAckClock(k) ==
  k \in DOMAIN h /\ h[k].pc = "clock" /\ k \in DOMAIN h' /\ h'[k].pc # "clock"

\* The step in which invocation k saves its record.
IsHandlerWrite(k) ==
  k \in DOMAIN h /\ h[k].pc = "write" /\ k \in DOMAIN h' /\ h'[k].pc = "reply"

\* The step in which invocation k sends its reply and ends.
IsHandlerReply(k) == k \in DOMAIN h /\ h[k].pc = "reply" /\ k \notin DOMAIN h'

\* What invocation k has come to: to save, or to reply only, and the reply.
Saves(x, reply) == x.pc = "write" /\ x.out.write /\ x.out.reply = reply

OnlyReplies(x, reply) == x.pc = "reply" /\ ~x.out.write /\ x.out.reply = reply

\* The reply that invocation k sends is the one it had come to, and sending
\* it leaves the table as it is.
SendsItsReply(k) ==
  IsHandlerReply(k) =>
    /\ resp'.n = k /\ resp'.op = h[k].op /\ resp'.reply = h[k].out.reply
    /\ store' = store

\* C5: when the acknowledge handler saves for the same user, medication name
\* and fire time and on the same local date as the last write to that user's
\* record, which was an acknowledge too, and it had read the record as that
\* write left it, the stored record stays as the first acknowledgment left
\* it.
C5_AckIdempotent ==
  [][\A k \in DOMAIN h :
       (/\ IsHandlerWrite(k) /\ h[k].op = "ack"
        /\ h[k].base = GetUserData(h[k].u)
        /\ hist[h[k].u].last = <<"ack", h[k].args, Today(h[k].base, h[k].at)>>)
       => store' = store]_vars

\* C5 witness: the same button has been pressed twice on one local date, the
\* second press after the first was saved, nothing else having written the
\* record in between, and both presses were saved.
C5_Witness ==
  /\ DOMAIN h = {}
  /\ resp.op = "ack" /\ resp.reply = "acknowledged_success"
  /\ hist[resp.u].again
  /\ hist[resp.u].last[1] = "ack"

\* the entries of a record that an acknowledge for (name, t) can be for
Hits(rec, name, t) ==
  {j \in 1..Len(rec.medications) :
     /\ SameIgnoringCase(rec.medications[j].name, name)
     /\ \E i \in 1..Len(rec.medications[j].times) : rec.medications[j].times[i] = t}

\* C6: an acknowledge for (name, t) succeeds, and is set on the first entry
\* of the record it read whose name is name ignoring case and whose times
\* hold t, when there is such an entry; when there is none it reports
\* not-found, saves nothing and leaves the stored record as it is.
C6_AckFoundIffMatch ==
  [][\A k \in DOMAIN h :
       /\ \A x \in AckPairs :
            (IsAckClock(k) /\ h[k].args = CallbackData(x[1], x[2]))
            => LET rec == h[k].base
                   hit == Hits(rec, x[1], x[2])
               IN IF hit # {}
                  THEN LET j == CHOOSE j \in hit : \A i \in hit : j <= i
                           old == rec.medications[j].acknowledged
                       IN /\ Saves(h'[k], "acknowledged_success")
                          /\ h'[k].out.rec =
                               [rec EXCEPT !.medications[j].acknowledged =
                                  [y \in (DOMAIN old) \cup {x[2]} |->
                                     IF y = x[2] THEN Today(rec, now) ELSE old[y]]]
                  ELSE /\ OnlyReplies(h'[k], "medicine_for_ack_not_found")
                       /\ store' = store
       /\ (IsHandlerWrite(k) /\ h[k].op = "ack")
            => /\ store'[h[k].u] = h[k].out.rec
               /\ h'[k].out = h[k].out
       /\ SendsItsReply(k)]_vars

\* C6 witness: an acknowledge whose name differs in case from the stored
\* entry's has succeeded and is stored on that entry, and after it an
\* acknowledge for a stored name with a fire time that its entry does not
\* hold was answered not-found and has left the record as it was.
C6_Witness ==
  /\ DOMAIN h = {}
  /\ resp.op = "ack" /\ resp.reply = "medicine_for_ack_not_found"
  /\ resp.args = CallbackData(NameB, T0900)
  /\ hist[resp.u].last = <<"ack", CallbackData(NameLower, T0900),
                           Today(store[resp.u], now)>>
  /\ \E j \in 1..Len(store[resp.u].medications) :
       store[resp.u].medications[j].name = NameB
  /\ \E j \in 1..Len(store[resp.u].medications) :
       LET med == store[resp.u].medications[j] IN
       /\ med.name = NameAs
       /\ HoldsAck(med, T0900, Today(store[resp.u], now))
       /\ \A t \in DOMAIN med.acknowledged : t = T0900

\* C7: every send a sweep has dispatched is waiting for a slot, in flight
\* with at most 10 in flight, or finished: none is dropped before it ran.
C7_EveryWaitingSendRuns ==
  \A p \in Procs :
    sw[p].pc = "gather" =>
      /\ Cardinality({k \in 1..Len(sw[p].st) : sw[p].st[k] = "inflight"}) <= 10
      /\ \A k \in 1..Len(sw[p].st) :
           sw[p].st[k] \in {"waiting", "inflight", "ok", "failed"}

\* the names a delete command has removed from user u's list, that no add
\* command has added since; Kept: those of them since whose removal nothing
\* has written the record from a copy read before the delete was saved
Deleted(u) == {d.name : d \in hist[u].deleted}

DeletedKept(u) == {d.name : d \in {x \in hist[u].deleted : x.ok}}

HasName(rec, names) ==
  \E j \in 1..Len(rec.medications) :
    \E n \in names : SameIgnoringCase(rec.medications[j].name, n)

\* C10 as stated: once a delete command for N has completed, and until N is
\* added again, the stored list holds no entry named N ignoring case.
C10_DeletedStaysDeleted ==
  \A u \in Users : ~HasName(GetUserData(u), Deleted(u))

\* C10, amended: a delete for N that finds entries named N ignoring case
\* saves the list it read without them, the others as they were and in their
\* order; one that finds none reports not-found and saves nothing; and until
\* N is added again or a sweep or another handler writes the record from a
\* copy it read before the delete was saved, the stored list holds no entry
\* named N ignoring case and an acknowledge for N reads a record without
\* such an entry and reports not-found.
C10_DeleteRemovesByName ==
  /\ [][\A n \in CmdDeleteNames :
          (IsHandle("delete") /\ HandleArgs = <<n>>)
          => LET rec == GetUserData(HandleUser)
                 kept == SelectSeq(rec.medications,
                                   LAMBDA m : ~SameIgnoringCase(m.name, n))
             IN IF Len(kept) < Len(rec.medications)
                THEN /\ Saves(Begun, "medicine_deleted")
                     /\ Begun.out.rec = [rec EXCEPT !.medications = kept]
                ELSE /\ OnlyReplies(Begun, "medicine_not_found")
                     /\ store' = store]_vars
  /\ [][\A k \in DOMAIN h :
          (IsHandlerWrite(k) /\ h[k].op = "delete")
          => /\ store'[h[k].u].medications =
                  SelectSeq(h[k].base.medications,
                            LAMBDA m : ~SameIgnoringCase(m.name, h[k].args[1]))
             /\ h'[k].out = h[k].out]_vars
  /\ [][\A k \in DOMAIN h : h[k].op \in {"delete", "ack"} => SendsItsReply(k)]_vars
  /\ [](\A u \in Users : ~HasName(GetUserData(u), DeletedKept(u)))
  /\ [][(/\ IsHandle("ack") /\ HandleArgs = CallbackData(NameLower, T0900)
         /\ \E n \in DeletedKept(HandleUser) : SameIgnoringCase(NameLower, n))
        => /\ (ncmd + 1) \in DOMAIN h'
           /\ Hits(Begun.base, NameLower, T0900) = {}]_vars
  /\ [][\A k \in DOMAIN h :
          (/\ IsAckClock(k) /\ h[k].args = CallbackData(NameLower, T0900)
           /\ Hits(h[k].base, NameLower, T0900) = {})
          => /\ OnlyReplies(h'[k], "medicine_for_ack_not_found")
             /\ store' = store]_vars

\* C10 witness: a delete whose name differs in case from the stored entry's
\* has removed it and kept another entry.
C10_Witness ==
  /\ DOMAIN h = {}
  /\ resp.op = "delete" /\ resp.reply = "medicine_deleted"
  /\ resp.args = <<NameUpper>>
  /\ DeletedKept(resp.u) # {}
  /\ hist[resp.u].gone # {}
  /\ Len(store[resp.u].medications) > 0

\* a fire time of the entry that is well-formed, not acknowledged today and
\* reached
HasDueTime(user, med, now_utc) ==
  \E i \in 1..Len(med.times) :
    /\ WellFormed(med.times[i])
    /\ ~HoldsAck(med, med.times[i], Today(user, now_utc))
    /\ Reached(user, med.times[i], now_utc)

\* C11: a fire time that does not parse gets no reminder and causes no
\* stamp, and the sweep goes on: an entry with a well-formed fire time that
\* is due and with no stamp dated today gets its reminder in the same pass,
\* whatever malformed fire times stand before or after it in the same entry,
\* in other entries or with other users, and the sweep goes through every
\* user it scanned.
C11_MalformedTimeIsSkipped ==
  /\ [][\A p \in Procs : IsSweepUser(p) =>
          LET user == sw[p].users[sw[p].i]
              after == sw'[p].users[sw[p].i]
              now_utc == sw[p].now_utc
              new == log' \ log
          IN /\ \A e \in new : WellFormed(e.t)
             /\ \A j \in 1..Len(user.medications) :
                  LET med == user.medications[j] IN
                  /\ (\A i \in 1..Len(med.times) : ~WellFormed(med.times[i]))
                       => after.medications[j] = med
                  /\ (HasDueTime(user, med, now_utc)
                        /\ ~StampedOn(med, Today(user, now_utc)))
                       => \E e \in new : e.id = med.id]_vars
  /\ [][\A p \in Procs :
          (sw[p].pc = "loop" /\ sw[p].i <= Len(sw[p].users) /\ sw'[p] # sw[p])
          => /\ IsSweepUser(p)
             /\ Len(sw'[p].users) = Len(sw[p].users)]_vars

\* C11 witness: a sweep has gone through two users; the first has an entry
\* whose malformed fire time stands before a due one, which was sent, and an
\* entry with malformed fire times only, which has no stamp; the second
\* user's due reminder was sent too.
C11_Witness ==
  \E p \in Procs :
    /\ LoopDone(p) /\ Len(sw[p].users) = 2
    /\ LET user == sw[p].users[1] IN
       /\ \E j \in 1..Len(user.medications) :
            LET med == user.medications[j] IN
            /\ ~WellFormed(med.times[1])
            /\ \E e \in log : e.sw = sw[p].serial /\ e.id = med.id /\ e.t = med.times[2]
       /\ \E j \in 1..Len(user.medications) :
            LET med == user.medications[j] IN
            /\ \A i \in 1..Len(med.times) : ~WellFormed(med.times[i])
            /\ Len(med.last_reminder_time) = 0
    /\ \E e \in log : e.sw = sw[p].serial /\ e.u = sw[p].users[2].chat_id

\* The stored timezone string is one that ZoneInfo resolves.
Resolvable(user) == user.timezone \in {"UTC", "Asia/Tokyo"}

\* C13: for a user whose stored timezone does not resolve, the sweep takes
\* the UTC wall clock and the UTC date: it sends what is due at UTC time,
\* nothing that is not, stamps with the UTC time, and goes on to the next
\* user; the acknowledge handler records the UTC date.
C13_BadZoneIsUtc ==
  /\ [][\A p \in Procs :
          (IsSweepUser(p) /\ ~Resolvable(sw[p].users[sw[p].i])) =>
          LET user == sw[p].users[sw[p].i]
              after == sw'[p].users[sw[p].i]
              utc == sw[p].now_utc
              day == utc \div 1440
              new == log' \ log
          IN /\ \A e \in new :
                  e.date = day /\ utc >= day * 1440 + FireMinute(e.t)
             /\ \A j \in 1..Len(user.medications) :
                  LET med == user.medications[j] IN
                  /\ (/\ \E i \in 1..Len(med.times) :
                           /\ WellFormed(med.times[i])
                           /\ ~HoldsAck(med, med.times[i], day)
                           /\ utc >= day * 1440 + FireMinute(med.times[i])
                      /\ ~StampedOn(med, day))
                       => /\ \E e \in new : e.id = med.id
                          /\ after.medications[j].last_reminder_time =
                               <<[wall |-> utc, off |-> 0]>>
             /\ sw'[p].pc = "loop"]_vars
  /\ [][\A k \in DOMAIN h : \A x \in FaultyAckPairs :
          (/\ IsAckClock(k) /\ h[k].args = CallbackData(x[1], x[2])
           /\ ~Resolvable(h[k].base)
           /\ Hits(h[k].base, x[1], x[2]) # {})
          => /\ Saves(h'[k], "acknowledged_success")
             /\ \E j \in Hits(h[k].base, x[1], x[2]) :
                  HoldsAck(h'[k].out.rec.medications[j], x[2], now \div 1440)]_vars

\* C13 witness: at 21:00 UTC, which is 06:00 of the next day in Asia/Tokyo,
\* a user with an unresolvable timezone has got the 18:00 reminder of the
\* UTC day and has acknowledged another fire time with the UTC date, and the
\* sweep has gone through the user after that one too.
C13_Witness ==
  /\ now = 1260
  /\ DOMAIN h = {}
  /\ \E u \in DOMAIN store :
       /\ ~Resolvable(store[u])
       /\ \E e \in log : e.u = u /\ e.t = T1800 /\ e.date = 0
       /\ \E j \in 1..Len(store[u].medications) :
            HoldsAck(store[u].medications[j], T2400, 0)
       /\ \E p \in Procs : \E user \in Processed(p) : user.chat_id # u

\* C12: a pressed button is either taken by the acknowledge handler with
\* data of three delimiter-separated fields of which the first is "ack", or
\* answered with the invalid reply, nothing being saved and the stored record
\* staying as it is.
C12_BadDataRejected ==
  /\ [][ncmd' = ncmd + 1 =>
          /\ (ncmd + 1) \in DOMAIN h'
          /\ \/ /\ Begun.pc = "clock"
                /\ Len(Split(Begun.args, "|")) = 3
                /\ Split(Begun.args, "|")[1] = <<"a", "c", "k">>
             \/ OnlyReplies(Begun, "ack_invalid")
          /\ store' = store]_vars
  /\ [][\A k \in DOMAIN h : SendsItsReply(k)]_vars

\* C20: when the button of a reminder that a finished sweep has sent is
\* pressed while the entry that the reminder was sent for is in the stored
\* list, the handler accepts the data, and it sets the acknowledgment of the
\* reminder's fire time on that entry of the list it read.
C20_ButtonReachesItsEntry ==
  /\ [][\A e \in log :
          \A j \in 1..Len(GetUserData(e.u).medications) :
            LET med == GetUserData(e.u).medications[j] IN
            (/\ med.id = e.id
             /\ \A p \in Procs : sw[p].serial # e.sw
             /\ IsHandle("ack") /\ HandleUser = e.u
             /\ HandleArgs = <<"a", "c", "k", "|">> \o med.name \o <<"|">> \o e.t)
            => Begun.pc = "clock"]_vars
  /\ [][\A k \in DOMAIN h : \A e \in log :
          \A j \in 1..Len(h[k].base.medications) :
            LET med == h[k].base.medications[j] IN
            (/\ med.id = e.id
             /\ IsAckClock(k) /\ h[k].u = e.u
             /\ h[k].args = <<"a", "c", "k", "|">> \o med.name \o <<"|">> \o e.t)
            => /\ Saves(h'[k], "acknowledged_success")
               /\ HoldsAck(h'[k].out.rec.medications[j], e.t, Today(h[k].base, now))]_vars

\* the local date, in the user's timezone as it is now, of the instant that
\* a stamp was written at
StampLocalDate(user, stamp) ==
  ((stamp.wall - stamp.off) + (IF user.timezone = "Asia/Tokyo" THEN 540 ELSE 0)) \div 1440

\* C14: an entry with a stamp and a fire time that is due gets no reminder
\* if and only if the instant of the stamp, taken to the user's timezone as
\* it is at the evaluation, is of today's local date.
C14_StampComparedInCurrentZone ==
  [][\A p \in Procs : IsSweepUser(p) =>
       LET user == sw[p].users[sw[p].i]
           now_utc == sw[p].now_utc
       IN \A j \in 1..Len(user.medications) :
            LET med == user.medications[j] IN
            (Len(med.last_reminder_time) = 1 /\ HasDueTime(user, med, now_utc))
            => ((~\E e \in log' \ log : e.id = med.id)
                  <=> StampLocalDate(user, med.last_reminder_time[1])
                        = Today(user, now_utc))]_vars

\* C18: with the timezone never changed, an entry whose only fire time is
\* reached and is not acknowledged with today's date, and whose stamp, if it
\* has one, is of an earlier date, gets a reminder dated today when the sweep
\* goes through it: acknowledgments and stamps of earlier dates suppress
\* nothing.
C18_DueAgainNextDay ==
  [][\A p \in Procs : IsSweepUser(p) =>
       LET user == sw[p].users[sw[p].i]
           now_utc == sw[p].now_utc
           today == Today(user, now_utc)
       IN \A j \in 1..Len(user.medications) :
            LET med == user.medications[j] IN
            (/\ hist[user.chat_id].tz = 0
             /\ Len(med.times) = 1
             /\ WellFormed(med.times[1])
             /\ Reached(user, med.times[1], now_utc)
             /\ ~HoldsAck(med, med.times[1], today)
             /\ \A i \in 1..Len(med.last_reminder_time) :
                  med.last_reminder_time[i].wall \div 1440 < today)
            => \E e \in log' \ log :
                 e.id = med.id /\ e.t = med.times[1] /\ e.date = today]_vars

\* C18 witness: an entry was reminded and acknowledged on one date, and on
\* the next date a sweep has sent its reminder again.
C18_Witness ==
  \E p \in Procs : \E user \in Processed(p) :
    \E j \in 1..Len(user.medications) :
      LET med == user.medications[j]
          today == Today(user, sw[p].now_utc)
      IN /\ hist[user.chat_id].tz = 0
         /\ HoldsAck(med, med.times[1], today - 1)
         /\ Sent(user.chat_id, med.id, med.times[1], today - 1)
         /\ \E e \in log : e.sw = sw[p].serial /\ e.id = med.id /\ e.date = today

\* C19 as stated: once a reminder for (medication, t) was sent on date D,
\* no reminder for it is added on D+1 while the stored record holds
\* acknowledged[t] = D+1.
C19_NoReminderAfterEarlyAck ==
  [][\A e \in log' \ log :
       (\E e0 \in log : e0.u = e.u /\ e0.id = e.id /\ e0.t = e.t
                         /\ e0.date = e.date - 1)
       => \A j \in 1..Len(store[e.u].medications) :
            store[e.u].medications[j].id = e.id
            => ~HoldsAck(store[e.u].medications[j], e.t, e.date)]_vars

\* C19, amended: the acknowledge handler sets acknowledged[t] to the local
\* date at which it reads the clock after the press, whether or not a reminder was sent on that date and
\* whatever date the reminder with the button was sent on; and a sweep that
\* scans the record with acknowledged[t] of today's date adds no reminder
\* for (medication, t).
C19_AckDateIsPressDate ==
  /\ [][\A k \in DOMAIN h :
          (/\ IsAckClock(k) /\ h[k].args = CallbackData(NameAs, T0900)
           /\ Hits(h[k].base, NameAs, T0900) # {})
          => LET rec == h[k].base
                 j == CHOOSE j \in Hits(rec, NameAs, T0900) :
                        \A i \in Hits(rec, NameAs, T0900) : j <= i
             IN /\ Saves(h'[k], "acknowledged_success")
                /\ h'[k].out.rec.medications[j].acknowledged[T0900] = Today(rec, now)]_vars
  /\ [][\A p \in Procs : IsSweepUser(p) =>
          LET user == sw[p].users[sw[p].i] IN
          \A e \in log' \ log :
            \A j \in 1..Len(user.medications) :
              user.medications[j].id = e.id
              => ~HoldsAck(user.medications[j], e.t, Today(user, sw[p].now_utc))]_vars

\* C19 witness: the button of a reminder sent on one date was pressed on the
\* next date before that date's reminder, the acknowledgment carries the date
\* of the press, and a sweep of that date, after the fire time, has gone
\* through the entry without sending.
C19_Witness ==
  \E p \in Procs : \E user \in Processed(p) :
    \E j \in 1..Len(user.medications) :
      LET med == user.medications[j]
          today == Today(user, sw[p].now_utc)
      IN /\ LoopDone(p)
         /\ Reached(user, med.times[1], sw[p].now_utc)
         /\ HoldsAck(med, med.times[1], today)
         /\ Sent(user.chat_id, med.id, med.times[1], today - 1)
         /\ ~Sent(user.chat_id, med.id, med.times[1], today)

\* C15: no two entries of a stored list have names that are equal ignoring
\* case.
C15_NamesUnique ==
  \A u \in DOMAIN store :
    \A j, k \in 1..Len(store[u].medications) :
      j # k => ~SameIgnoringCase(store[u].medications[j].name,
                                 store[u].medications[k].name)

\* an entry as the handlers and the sweep's evaluation see it, the stamp
\* aside
NoStamp(med) == [med EXCEPT !.last_reminder_time = <<>>]

\* C17: a sweep's save leaves in the store the copy that the sweep scanned,
\* with its new stamps, whatever a handler stored since the scan; a handler's
\* save leaves in the store the copy that the handler read, with the
\* handler's change, and so with the stamps as they were when it read.
C17_LastWriteWins ==
  /\ [][\A p \in Procs :
          (IsSweepUser(p) /\ sw'[p].saved # sw[p].saved) =>
          LET copy == sw[p].users[sw[p].i]
              item == store'[copy.chat_id]
          IN /\ item.timezone = copy.timezone
             /\ item.language = copy.language
             /\ Len(item.medications) = Len(copy.medications)
             /\ \A j \in 1..Len(copy.medications) :
                  /\ NoStamp(item.medications[j]) = NoStamp(copy.medications[j])
                  /\ \/ item.medications[j] = copy.medications[j]
                     \/ item.medications[j].last_reminder_time =
                          <<[wall |-> LocalNow(copy, sw[p].now_utc),
                             off |-> LocalNow(copy, sw[p].now_utc) - sw[p].now_utc]>>]_vars
  /\ [][\A k \in DOMAIN h : IsHandlerWrite(k) =>
          LET x == h[k]
              item == store'[x.u]
          IN /\ item = x.out.rec
             /\ x.op # "settimezone" => item.timezone = x.base.timezone
             /\ x.op # "setlanguage" => item.language = x.base.language
             /\ \A j \in 1..Len(item.medications) :
                  \A i \in 1..Len(x.base.medications) :
                    item.medications[j].id = x.base.medications[i].id
                    => /\ item.medications[j].last_reminder_time =
                            x.base.medications[i].last_reminder_time
                       /\ x.op # "ack" => item.medications[j] = x.base.medications[i]]_vars

\* C17 witness: a sweep has saved over a handler's update, which is lost,
\* and a handler has saved over a sweep's stamp, which is lost.
C17_Witness ==
  /\ DOMAIN h = {}
  /\ \E u \in Users : hist[u].slost > 0 /\ hist[u].hlost > 0

\* C16: a sweep that scanned an entry before another sweep's stamp was
\* stored sends the entry's due reminder, although the stored record is
\* stamped with today's date when it comes to the entry.
C16_OverlapSendsTwice ==
  [][\A p \in Procs : IsSweepUser(p) =>
       LET user == sw[p].users[sw[p].i]
           now_utc == sw[p].now_utc
       IN \A j \in 1..Len(user.medications) :
            LET med == user.medications[j] IN
            (/\ HasDueTime(user, med, now_utc)
             /\ ~StampedOn(med, Today(user, now_utc))
             /\ \E k \in 1..Len(store[user.chat_id].medications) :
                  /\ store[user.chat_id].medications[k].id = med.id
                  /\ StampedOn(store[user.chat_id].medications[k], Today(user, now_utc)))
            => \E e \in log' \ log : e.id = med.id]_vars

\* C16 witness: two overlapping sweeps have each sent the reminder of the
\* same entry, fire time and local date.
C16_Witness ==
  /\ overlap
  /\ \E e1, e2 \in log :
       /\ SameReminder(e1, e2) /\ e1.sw # e2.sw
       /\ SameZoneAndEntry(e1, e2) /\ e1.hlost = e2.hlost

====
